---- MODULE Spec2Model ----
(***************************************************************************)
(* Model of the chat store (zustand store `useChatStore`) and of the job   *)
(* delivery logic inside it: sendMessage, the push subscription opened     *)
(* with api.streamJobEvents, the two poll loops (pollJobStatus and         *)
(* startJobPolling), restartJobStreaming and stopStreaming.                *)
(*                                                                         *)
(* JavaScript runs handlers to completion; the only suspension points are  *)
(* the awaits (createChat, createJob, sendMessage request, getJobStatus)   *)
(* and the timers.  Every action below is one run-to-completion step.      *)
(* A message content is a sequence of text tokens; string concatenation is *)
(* sequence concatenation.                                                 *)
(*                                                                         *)
(* The event stream itself (api.streamJobEvents, in lib/api) is modelled   *)
(* from its description: ChannelOpen, ChannelDone, ChannelFailed, CloseSub.*)
(* The status request answers with any status at any time.  The provider / *)
(* model selection, fetchModels, fetchAgents and syncChatsFromBackend play *)
(* no part in job delivery and are left out.                               *)
(***************************************************************************)
EXTENDS Integers, Sequences, FiniteSets, TLC

\* ---------------------------------------------------------------- bounds
\* calls that open a delivery channel: sendMessage and restartJobStreaming
\* calls together
MaxCalls      == 2
MaxData       == 2   \* incremental frames per push subscription
MaxDeletes    == 1   \* deleteChat calls
\* maxAttempts is 86400 in the source; the model scales it down so that the
\* ceiling is reached.
maxAttempts   == 2
\* cap on the status requests of one startJobPolling loop (it has no ceiling)
MaxPolls      == maxAttempts + 1

\* ---------------------------------------------------------------- values
NoChat    == 0
NoAgent   == "null"
NoText    == "null"
NoJob     == [job_id |-> 0, status |-> "null"]
NoCleanup == [kind |-> "null", id |-> 0]
NoName    == ""
NoArtifact == [path |-> "none"]
NewChatTitle == << "New Chat" >>

AgentIds     == {"a1"}
ChatModes    == {"normal", "agent"}
UserContent  == <<"u">>
\* the text fragments an event stream carries, in the order it sends them
DataFrames   == << "Hello", " world" >>
DataChunks   == { DataFrames[i] : i \in DOMAIN DataFrames }
ReplyChars   == <<"h", "i">>
\* the source writes the marker as a cross-mark emoji followed by "Error: "
ErrPrefix    == "Error: "
\* statuses a status request can answer with ("other" is any status outside
\* the four the store knows)
PollStatuses == {"queued", "running", "completed", "failed", "other"}
\* terminal frames of the event stream
TermFrames   == { [status |-> "completed", result |-> "R",    error |-> NoText],
                  [status |-> "completed", result |-> NoText, error |-> NoText],
                  [status |-> "failed",    result |-> NoText, error |-> "boom"] }

VARIABLES
  chats,            \* Chat[]: sequence of [id, title, agent_id, messages]
  currentChatId,
  selectedProvider,
  selectedModel,
  selectedAgentId,
  chatMode,
  isConnected,
  loadingChatId,
  isLoading,
  isStreaming,
  currentJob,
  streamingCleanup, \* which closure is stored: [kind, id] or NoCleanup
  nextChatId,       \* backend: id of the next chat it creates
  sends,            \* one record per sendMessage call (its closure and position)
  subs,             \* one record per api.streamJobEvents subscription
  loops,            \* one record per poll loop (pollJobStatus / startJobPolling)
  timers,           \* subscriptions whose 3 s "clear job" timer is pending
  nDeletes,
  message,          \* ChatInput: the text in the input box
  artifact,         \* the terminal result whose download link is being built
  termSignals,      \* history: terminal signals delivered, per job
  termApplied,      \* history: terminal transcript mutations applied, per job
  cancelled         \* history: jobs that were current when stopStreaming ran

vars == << chats, currentChatId, selectedProvider, selectedModel, selectedAgentId,
           chatMode, isConnected, loadingChatId, isLoading, isStreaming, currentJob,
           streamingCleanup, nextChatId, sends, subs, loops, timers, nDeletes,
           message, artifact, termSignals, termApplied, cancelled >>

storeFlags == << loadingChatId, isLoading, isStreaming, currentJob, streamingCleanup >>
config     == << selectedProvider, selectedModel, selectedAgentId, chatMode >>
input      == << message, isConnected >>
history    == << termSignals, termApplied, cancelled >>

\* ------------------------------------------------------- transcript mutator
\* the clock is not modelled: every message the store creates carries the
\* time of its creation, Now
Now == "now"

Msg(role, content) == [role |-> role, content |-> content, timestamp |-> Now]

\* generateChatTitle(content): the title is the beginning of the content
generateChatTitle(content) == SubSeq(content, 1, IF Len(content) = 0 THEN 0 ELSE 1)

HasChat(cs, chatId) == \E i \in DOMAIN cs : cs[i].id = chatId

\* chats.find(c => c.id === chatId): the first match
FindChat(cs, chatId) ==
  cs[CHOOSE i \in DOMAIN cs : cs[i].id = chatId /\ \A k \in 1..(i-1) : cs[k].id # chatId]

Messages(cs, chatId) == IF HasChat(cs, chatId) THEN FindChat(cs, chatId).messages ELSE <<>>

\* chat?.messages[chat.messages.length - 1]?.role === 'assistant'
LastIsAssistant(cs, chatId) ==
  LET ms == Messages(cs, chatId)
  IN  Len(ms) > 0 /\ ms[Len(ms)].role = "assistant"

addMessage(cs, chatId, m) ==
  [i \in DOMAIN cs |->
     IF cs[i].id = chatId
     THEN [cs[i] EXCEPT !.messages = Append(@, m),
                        !.title = IF Len(cs[i].messages) = 0 /\ m.role = "user"
                                  THEN generateChatTitle(m.content)
                                  ELSE @]
     ELSE cs[i]]

\* updateLastMessage that puts a fresh assistant message in the last place
updateLastMessageReplaces(cs, chatId, content) ==
  [i \in DOMAIN cs |->
     IF cs[i].id = chatId /\ Len(cs[i].messages) > 0
     THEN [cs[i] EXCEPT !.messages[Len(cs[i].messages)] = Msg("assistant", content)]
     ELSE cs[i]]

updateLastMessage(cs, chatId, content) ==
  [i \in DOMAIN cs |->
     IF cs[i].id = chatId /\ Len(cs[i].messages) > 0
     THEN [cs[i] EXCEPT !.messages[Len(cs[i].messages)].content = content]
     ELSE cs[i]]

\* UpdateOrAdd without the test of the last message's role
UpdateOrAddAlwaysAdds(cs, chatId, content) ==
  addMessage(cs, chatId, Msg("assistant", content))

\* the idiom used by every push callback:
\*   lastMsg?.role === 'assistant' ? updateLastMessage(..) : addMessage(..)
UpdateOrAdd(cs, chatId, content) ==
  IF LastIsAssistant(cs, chatId)
  THEN updateLastMessage(cs, chatId, content)
  ELSE addMessage(cs, chatId, Msg("assistant", content))

\* ErrorMsg that drops the error text it is given
ErrorMsgIgnoresError(e, dflt) == << ErrPrefix, dflt >>

\* `❌ Error: ${e || dflt}`
ErrorMsg(e, dflt) == << ErrPrefix, IF e = NoText THEN dflt ELSE e >>

IsErrorMsg(m) == m.role = "assistant" /\ Len(m.content) > 0 /\ m.content[1] = ErrPrefix

\* fullResponse.trim() is non-empty
TrimNonEmpty(content) == \E i \in DOMAIN content : content[i] \notin {"", "\n", " "}

Bump(f, j) == [f EXCEPT ![j] = @ + 1]

\* ---------------------------------------------------------------- Init
\* The store starts empty; the persist middleware restores the selected
\* agent and the chat mode of the last session, so both are free here.
InitChats ==
  /\ chats = <<>>
  /\ currentChatId = NoChat

InitConfig ==
  /\ selectedProvider = NoName
  /\ selectedModel = NoName
  /\ selectedAgentId \in AgentIds \cup {NoAgent}
  /\ chatMode \in ChatModes

InitInput ==
  /\ message = <<>>
  /\ isConnected = FALSE

\* no call made yet: no job, no channel, no timer
InitDelivery ==
  /\ loadingChatId = NoChat
  /\ isLoading = FALSE
  /\ isStreaming = FALSE
  /\ currentJob = NoJob
  /\ streamingCleanup = NoCleanup
  /\ nextChatId = 1
  /\ sends = <<>>
  /\ subs = <<>>
  /\ loops = <<>>
  /\ timers = {}
  /\ nDeletes = 0
  /\ termSignals = <<>>
  /\ termApplied = <<>>
  /\ cancelled = {}

Init ==
  /\ InitChats
  /\ InitConfig
  /\ InitInput
  /\ artifact = NoArtifact
  /\ InitDelivery

\* ------------------------------------------------------------ chat list
\* DeleteChat that leaves currentChatId as it is
DeleteChatKeepsCurrent(chatId) ==
  LET filteredChats == SelectSeq(chats, LAMBDA c : c.id # chatId)
  IN  /\ nDeletes < MaxDeletes
      /\ HasChat(chats, chatId)
      /\ nDeletes' = nDeletes + 1
      /\ chats' = filteredChats
      /\ currentChatId' = currentChatId
      /\ UNCHANGED << config, input, artifact, storeFlags, nextChatId, sends, subs, loops, timers, history >>

\* deleteChat(chatId)
DeleteChat(chatId) ==
  LET filteredChats == SelectSeq(chats, LAMBDA c : c.id # chatId)
  IN  /\ nDeletes < MaxDeletes
      /\ HasChat(chats, chatId)
      /\ nDeletes' = nDeletes + 1
      /\ chats' = filteredChats
      /\ currentChatId' = IF currentChatId = chatId
                          THEN (IF Len(filteredChats) > 0 THEN filteredChats[1].id ELSE NoChat)
                          ELSE currentChatId
      /\ UNCHANGED << config, input, artifact, storeFlags, nextChatId, sends, subs, loops, timers, history >>

\* ------------------------------------------------------------ stopStreaming
\* What calling the stored cleanup closure does to the subscriptions, to the
\* poll loops and to the simulated-streaming intervals.
\* The push channel (api.streamJobEvents): a subscription delivers frames
\* while it is open; the terminal frame and a connection error each end it;
\* releasing it (the returned cleanup) closes the connection.
ChannelOpen(k) == subs[k].state = "open"
ChannelDone(ss, k) == [ss EXCEPT ![k].state = "done"]
ChannelFailed(ss, k) == [ss EXCEPT ![k].state = "failed"]
CloseSub(ss, k) ==
  [ss EXCEPT ![k].state = IF @ = "open" THEN "closed" ELSE @]

\* startJobPolling's cleanup: if (pollTimeout) clearTimeout(pollTimeout).
\* A request that is in flight is not a pending timer and is not stopped.
ClearPollTimeout(ls, l) ==
  [ls EXCEPT ![l].state = IF @ = "scheduled" THEN "stopped" ELSE @]

\* normal mode cleanup: clearInterval(streamInterval)
ClearInterval(sd, s) ==
  [sd EXCEPT ![s].pc = IF @ = "interval" THEN "done" ELSE @]

SubsAfterStop ==
  IF streamingCleanup.kind = "push" THEN CloseSub(subs, streamingCleanup.id) ELSE subs
LoopsAfterStop ==
  IF streamingCleanup.kind = "poll" THEN ClearPollTimeout(loops, streamingCleanup.id) ELSE loops
SendsAfterStop ==
  IF streamingCleanup.kind = "interval" THEN ClearInterval(sends, streamingCleanup.id) ELSE sends

JobActive == currentJob # NoJob /\ currentJob.status \in {"queued", "running"}

\* calls made so far
NCalls ==
  Len(sends) + Cardinality({ k \in DOMAIN subs : subs[k].origin = "restart" })

\* StopStreaming that resets the store whether or not a cleanup is stored
StopStreamingAlwaysClears ==
  /\ subs' = SubsAfterStop
  /\ loops' = LoopsAfterStop
  /\ sends' = SendsAfterStop
  /\ streamingCleanup' = NoCleanup
  /\ isStreaming' = FALSE
  /\ loadingChatId' = NoChat
  /\ currentJob' = NoJob
  /\ UNCHANGED isLoading
  /\ cancelled' = IF JobActive THEN cancelled \cup {currentJob.job_id} ELSE cancelled
  /\ UNCHANGED << chats, currentChatId, config, input, artifact, nextChatId, timers, nDeletes,
                  termSignals, termApplied >>

\* stopStreaming()
StopStreaming ==
  /\ \/ /\ streamingCleanup # NoCleanup
        /\ subs' = SubsAfterStop
        /\ loops' = LoopsAfterStop
        /\ sends' = SendsAfterStop
        /\ streamingCleanup' = NoCleanup
        /\ isStreaming' = FALSE
        /\ loadingChatId' = NoChat
        /\ currentJob' = NoJob
        /\ UNCHANGED isLoading
     \/ /\ streamingCleanup = NoCleanup
        /\ UNCHANGED << subs, loops, sends, storeFlags >>
  /\ cancelled' = IF JobActive THEN cancelled \cup {currentJob.job_id} ELSE cancelled
  /\ UNCHANGED << chats, currentChatId, config, input, artifact, nextChatId, timers, nDeletes,
                  termSignals, termApplied >>

\* -------------------------------------------------------------- sendMessage
NewSend(content, chatId, agent) ==
  [pc |-> "start", content |-> content, chatId |-> chatId, agent_id |-> agent, capMode |-> chatMode,
   capAgent |-> selectedAgentId, snap |-> <<>>, reqAgent |-> NoAgent, charIndex |-> 0]

\* lines 472-499: add the user message, set the flags, issue the request
Submit(s, sd, cs, chatId, agent) ==
  /\ chats' = addMessage(cs, chatId, Msg("user", sd[s].content))
  /\ loadingChatId' = chatId
  /\ isLoading' = TRUE
  /\ isStreaming' = TRUE
  /\ sends' = [sd EXCEPT ![s].pc = IF agent # NoAgent THEN "createJob" ELSE "sendReq",
                         ![s].chatId = chatId, ![s].agent_id = agent, ![s].snap = <<>>]
  /\ UNCHANGED << currentJob, streamingCleanup >>

\* createChat(config) up to its await: the request carries
\* chatMode === 'agent' ? (config?.agent_id || selectedAgentId) : null
\* and the closure keeps the chats it read before the await.
CallCreateChat(s, sd, cs, pc, cfgAgent) ==
  /\ sends' = [sd EXCEPT ![s].pc = pc, ![s].snap = cs,
                         ![s].reqAgent = IF chatMode = "agent"
                                         THEN (IF cfgAgent # NoAgent THEN cfgAgent
                                               ELSE selectedAgentId)
                                         ELSE NoAgent]
  /\ chats' = cs
  /\ UNCHANGED storeFlags

\* lines 462-470 and what follows
AfterChat(s, sd, cs, chatId, agent) ==
  LET isAgentModePreferred == sd[s].capMode = "agent" \/ agent # NoAgent
  IN  IF isAgentModePreferred /\ agent = NoAgent
      THEN CallCreateChat(s, [sd EXCEPT ![s].chatId = chatId, ![s].agent_id = agent],
                          cs, "createChat2", sd[s].capAgent)
      ELSE Submit(s, sd, cs, chatId, agent)

\* sendMessage(content) up to its first await
sendMessage(content) ==
  LET s  == Len(sends) + 1
      sd == Append(sends, NewSend(content, currentChatId, NoAgent))
      found == currentChatId # NoChat /\ HasChat(chats, currentChatId)
      agent == IF found THEN FindChat(chats, currentChatId).agent_id ELSE NoAgent
  IN  /\ NCalls < MaxCalls
      /\ termSignals' = Append(termSignals, 0)
      /\ termApplied' = Append(termApplied, 0)
      /\ IF currentChatId = NoChat
         THEN CallCreateChat(s, sd, chats, "createChat1", NoAgent)
         ELSE AfterChat(s, sd, chats, currentChatId, agent)
      /\ UNCHANGED << currentChatId, config, artifact, nextChatId, subs, loops, timers,
                      nDeletes, cancelled >>

\* sendMessage is called by a caller that does not look at the store first
\* (the welcome screen's suggestions, a message's regenerate button)
SendStart ==
  sendMessage(UserContent) /\ UNCHANGED input

\* api.createChat answers: set({chats: [newChat, ...chats], currentChatId})
CreateChatResponse(s) ==
  LET newChat == [id |-> nextChatId, title |-> NewChatTitle,
                  agent_id |-> sends[s].reqAgent, messages |-> <<>>]
      cs      == <<newChat>> \o sends[s].snap
  IN  /\ s \in DOMAIN sends
      /\ sends[s].pc \in {"createChat1", "createChat2"}
      /\ nextChatId' = nextChatId + 1
      /\ currentChatId' = newChat.id
      /\ IF sends[s].pc = "createChat1"
         THEN AfterChat(s, sends, cs, newChat.id, newChat.agent_id)
         ELSE Submit(s, sends, cs, newChat.id, newChat.agent_id)
      /\ UNCHANGED << config, input, artifact, subs, loops, timers, nDeletes, history >>

\* api.createChat throws: createChat rethrows and sendMessage rejects
CreateChatThrows(s) ==
  /\ s \in DOMAIN sends
  /\ sends[s].pc \in {"createChat1", "createChat2"}
  /\ sends' = [sends EXCEPT ![s].pc = "rejected", ![s].snap = <<>>]
  /\ UNCHANGED << chats, currentChatId, config, input, artifact, storeFlags, nextChatId, subs, loops,
                  timers, nDeletes, history >>

\* SendCatch that leaves the stored cleanup in place
SendCatchKeepsCleanup(s, errText) ==
  /\ chats' = addMessage(chats, sends[s].chatId, Msg("assistant", ErrorMsg(errText, "Failed to send message")))
  /\ loadingChatId' = NoChat
  /\ isLoading' = FALSE
  /\ isStreaming' = FALSE
  /\ currentJob' = NoJob
  /\ streamingCleanup' = streamingCleanup
  /\ sends' = [sends EXCEPT ![s].pc = "done"]
  /\ UNCHANGED subs

\* the catch block of sendMessage (lines 633-644)
SendCatch(s, errText) ==
  /\ chats' = addMessage(chats, sends[s].chatId, Msg("assistant", ErrorMsg(errText, "Failed to send message")))
  /\ loadingChatId' = NoChat
  /\ isLoading' = FALSE
  /\ isStreaming' = FALSE
  /\ currentJob' = NoJob
  /\ streamingCleanup' = NoCleanup
  /\ sends' = [sends EXCEPT ![s].pc = "done"]
  /\ UNCHANGED subs

NewSub(j, chatId, origin) ==
  [state |-> "open", job |-> j, chat |-> chatId, origin |-> origin, full |-> <<>>, nData |-> 0]

\* NewLoop whose first request waits for the poll timer
NewLoopAfterDelay(j, chatId, kind) ==
  [state |-> "scheduled", job |-> j, chat |-> chatId, kind |-> kind,
   attempts |-> 0, requests |-> 0]

NewLoop(j, chatId, kind) ==
  [state |-> "inflight", job |-> j, chat |-> chatId, kind |-> kind,
   attempts |-> 0, requests |-> 1]

\* pollJobStatus(jobId, chatId) up to its first await: the first status
\* request is issued
pollJobStatus(j, chatId) ==
  loops' = Append(loops, NewLoop(j, chatId, "pollJobStatus"))

\* startJobPolling(chatId, jobId) (lines 92-183) up to its first await
startJobPolling(chatId, j) ==
  /\ loadingChatId' = chatId
  /\ isLoading' = TRUE
  /\ loops' = Append(loops, NewLoop(j, chatId, "startJobPolling"))
  /\ streamingCleanup' = [kind |-> "poll", id |-> Len(loops) + 1]

\* state.currentJob ? { ...state.currentJob, status: st } : null
WithStatus(job, st) == IF job # NoJob THEN [job EXCEPT !.status = st] ELSE NoJob

\* set({ currentJob: { ...job, status: 'queued' } }), the first thing done
\* with the answer of api.createJob
QueuedJob(j) == [job_id |-> j, status |-> "queued"]

\* api.createJob answers (agent mode, lines 499-595).  The job id of the
\* s-th sendMessage call is s.  The job is set queued, then running, and
\* then the event stream is opened, all in this one step.
CreateJobResponse(s, outcome) ==
  /\ s \in DOMAIN sends
  /\ sends[s].pc = "createJob"
  /\ CASE outcome = "ok" ->
            /\ currentJob' = WithStatus(QueuedJob(s), "running")
            /\ subs' = Append(subs, NewSub(s, sends[s].chatId, "send"))
            /\ streamingCleanup' = [kind |-> "push", id |-> Len(subs) + 1]
            /\ sends' = [sends EXCEPT ![s].pc = "done"]
            /\ UNCHANGED << chats, loadingChatId, isLoading, isStreaming >>
       [] outcome = "noid"  -> SendCatch(s, "No job ID received")
       [] outcome = "throw" -> SendCatch(s, NoText)
  /\ UNCHANGED << currentChatId, config, input, artifact, nextChatId, loops, timers, nDeletes, history >>

\* api.sendMessage answers (normal mode, lines 600-630)
SendReplyResponse(s, outcome) ==
  /\ s \in DOMAIN sends
  /\ sends[s].pc = "sendReq"
  /\ CASE outcome = "ok" ->
            /\ chats' = addMessage(chats, sends[s].chatId, Msg("assistant", <<>>))
            /\ isLoading' = FALSE
            /\ streamingCleanup' = [kind |-> "interval", id |-> s]
            /\ sends' = [sends EXCEPT ![s].pc = "interval", ![s].charIndex = 0]
            /\ UNCHANGED << loadingChatId, isStreaming, currentJob, subs >>
       [] outcome = "throw" -> SendCatch(s, NoText)
  /\ UNCHANGED << currentChatId, config, input, artifact, nextChatId, loops, timers, nDeletes, history >>

\* one firing of streamInterval (lines 614-623)
IntervalTick(s) ==
  /\ s \in DOMAIN sends
  /\ sends[s].pc = "interval"
  /\ IF sends[s].charIndex < Len(ReplyChars)
     THEN /\ chats' = updateLastMessage(chats, sends[s].chatId,
                                        SubSeq(ReplyChars, 1, sends[s].charIndex + 1))
          /\ sends' = [sends EXCEPT ![s].charIndex = @ + 1]
          /\ UNCHANGED << loadingChatId, isStreaming >>
     ELSE /\ sends' = [sends EXCEPT ![s].pc = "done"]
          /\ loadingChatId' = NoChat
          /\ isStreaming' = FALSE
          /\ UNCHANGED chats
  /\ UNCHANGED << currentChatId, config, input, artifact, isLoading, currentJob, streamingCleanup,
                  nextChatId, subs, loops, timers, nDeletes, history >>

\* ------------------------------------------------------------ push channel
\* the fragment the stream of subscription k sends next
NextFrame(k) == DataFrames[(subs[k].nData % Len(DataFrames)) + 1]

\* onData of a subscription: an incremental frame arrives
OnData(k, data) ==
  /\ k \in DOMAIN subs
  /\ ChannelOpen(k)
  /\ subs[k].nData < MaxData
  /\ data = NextFrame(k)
  /\ IF subs[k].origin = "send"
     THEN LET fullResponse == subs[k].full \o << data, "\n" >>
          IN  /\ subs' = [subs EXCEPT ![k].full = fullResponse, ![k].nData = @ + 1]
              /\ chats' = IF TrimNonEmpty(fullResponse)
                          THEN UpdateOrAdd(chats, subs[k].chat, fullResponse)
                          ELSE chats
     ELSE /\ subs' = [subs EXCEPT ![k].nData = @ + 1]
          /\ chats' = IF LastIsAssistant(chats, subs[k].chat)
                      THEN updateLastMessage(chats, subs[k].chat, << data >>)
                      ELSE chats
  /\ currentJob' = WithStatus(currentJob, "running")
  /\ UNCHANGED << currentChatId, config, input, artifact, loadingChatId, isLoading, isStreaming,
                  streamingCleanup, nextChatId, sends, loops, timers, nDeletes, history >>

\* set({ loadingChatId: null, isLoading: false, isStreaming: false }) that
\* ends onComplete
onCompleteClear ==
  /\ loadingChatId' = NoChat
  /\ isLoading' = FALSE
  /\ isStreaming' = FALSE

\* onComplete of a subscription: the terminal frame arrives
OnComplete(k, result) ==
  /\ k \in DOMAIN subs
  /\ ChannelOpen(k)
  /\ subs' = ChannelDone(subs, k)
  /\ streamingCleanup' = NoCleanup
  /\ termSignals' = Bump(termSignals, subs[k].job)
  /\ CASE result.status = "completed" /\ result.result # NoText ->
            /\ chats' = UpdateOrAdd(chats, subs[k].chat, << result.result >>)
            /\ currentJob' = WithStatus(currentJob, "completed")
            /\ timers' = timers \cup {k}
            /\ termApplied' = IF HasChat(chats, subs[k].chat)
                              THEN Bump(termApplied, subs[k].job) ELSE termApplied
       [] result.status = "failed" ->
            /\ chats' = UpdateOrAdd(chats, subs[k].chat, ErrorMsg(result.error, "Job failed"))
            /\ currentJob' = WithStatus(currentJob, "failed")
            /\ timers' = timers \cup {k}
            /\ termApplied' = IF HasChat(chats, subs[k].chat)
                              THEN Bump(termApplied, subs[k].job) ELSE termApplied
       [] OTHER ->
            UNCHANGED << chats, currentJob, timers, termApplied >>
  /\ onCompleteClear
  /\ UNCHANGED << currentChatId, config, input, artifact, nextChatId, sends, loops, nDeletes, cancelled >>

\* onError of a subscription: the connection fails before a terminal frame.
\* sendMessage falls back to pollJobStatus, restartJobStreaming to
\* startJobPolling.
OnError(k) ==
  /\ k \in DOMAIN subs
  /\ ChannelOpen(k)
  /\ subs' = ChannelFailed(subs, k)
  /\ IF subs[k].origin = "send"
     THEN /\ streamingCleanup' = NoCleanup
          /\ pollJobStatus(subs[k].job, subs[k].chat)
          /\ UNCHANGED << loadingChatId, isLoading >>
     ELSE startJobPolling(subs[k].chat, subs[k].job)
  /\ UNCHANGED << chats, currentChatId, config, input, artifact, isStreaming, currentJob, nextChatId,
                  sends, timers, nDeletes, history >>

\* the 3 s timer set by onComplete fires: set({ currentJob: null })
TimerFire(k) ==
  /\ k \in timers
  /\ timers' = timers \ {k}
  /\ currentJob' = NoJob
  /\ UNCHANGED << chats, currentChatId, config, input, artifact, loadingChatId, isLoading, isStreaming,
                  streamingCleanup, nextChatId, sends, subs, loops, nDeletes, history >>

\* ------------------------------------------------------------ pull channel
\* jobs whose id the client knows
JobIds == { subs[k].job : k \in DOMAIN subs }

\* status.result_message || 'Completed'
PollFinalMessage(result_message) ==
  << IF result_message = NoText THEN "Completed" ELSE result_message >>

\* pollJobStatusClear with isLoading forgotten
pollJobStatusClearKeepsLoading ==
  /\ loadingChatId' = NoChat
  /\ isLoading' = isLoading
  /\ isStreaming' = FALSE
  /\ currentJob' = NoJob

\* set({ loadingChatId: null, isLoading: false, isStreaming: false,
\*       currentJob: null }) of pollJobStatus
pollJobStatusClear ==
  /\ loadingChatId' = NoChat
  /\ isLoading' = FALSE
  /\ isStreaming' = FALSE
  /\ currentJob' = NoJob

\* startJobPollingClear with the job reference left in place
startJobPollingClearKeepsJob ==
  /\ loadingChatId' = NoChat
  /\ isLoading' = FALSE
  /\ isStreaming' = FALSE
  /\ currentJob' = currentJob
  /\ streamingCleanup' = NoCleanup

\* the same set of startJobPolling, which also drops streamingCleanup
startJobPollingClear ==
  /\ loadingChatId' = NoChat
  /\ isLoading' = FALSE
  /\ isStreaming' = FALSE
  /\ currentJob' = NoJob
  /\ streamingCleanup' = NoCleanup

\* getJobStatus answers inside pollJobStatus.poll (lines 651-679)
PollJobStatusResponse(l, status) ==
  LET j      == loops[l].job
      chatId == loops[l].chat
      attempts == loops[l].attempts + 1
      clear  == pollJobStatusClear
      applied == IF HasChat(chats, chatId) THEN Bump(termApplied, j) ELSE termApplied
  IN  /\ l \in DOMAIN loops
      /\ loops[l].kind = "pollJobStatus"
      /\ loops[l].state = "inflight"
      /\ CASE status = "completed" ->
                /\ chats' = addMessage(chats, chatId, Msg("assistant", PollFinalMessage("R")))
                /\ clear
                /\ loops' = [loops EXCEPT ![l].state = "stopped"]
                /\ termSignals' = Bump(termSignals, j)
                /\ termApplied' = applied
           [] status = "failed" ->
                /\ chats' = addMessage(chats, chatId, Msg("assistant", ErrorMsg("boom", "Job failed")))
                /\ clear
                /\ loops' = [loops EXCEPT ![l].state = "stopped"]
                /\ termSignals' = Bump(termSignals, j)
                /\ termApplied' = applied
           [] OTHER ->
                IF attempts < maxAttempts
                THEN /\ loops' = [loops EXCEPT ![l].state = "scheduled", ![l].attempts = attempts]
                     /\ UNCHANGED << chats, loadingChatId, isLoading, isStreaming, currentJob,
                                     termSignals, termApplied >>
                ELSE /\ chats' = addMessage(chats, chatId,
                                            Msg("assistant", ErrorMsg("Request timed out", "")))
                     /\ clear
                     /\ loops' = [loops EXCEPT ![l].state = "stopped", ![l].attempts = attempts]
                     /\ termSignals' = Bump(termSignals, j)
                     /\ termApplied' = applied
      /\ UNCHANGED << currentChatId, config, input, artifact, streamingCleanup, nextChatId, sends, subs,
                      timers, nDeletes, cancelled >>

\* getJobStatus answers inside startJobPolling.poll (lines 98-161)
StartJobPollingResponse(l, status) ==
  LET j      == loops[l].job
      chatId == loops[l].chat
      clear  == startJobPollingClear
  IN  /\ l \in DOMAIN loops
      /\ loops[l].kind = "startJobPolling"
      /\ loops[l].state = "inflight"
      /\ CASE status = "completed" ->
                /\ loops' = [loops EXCEPT ![l].state = "stopped"]
                /\ termSignals' = Bump(termSignals, j)
                /\ IF HasChat(chats, chatId)
                   THEN /\ chats' = addMessage(chats, chatId, Msg("assistant", PollFinalMessage("R")))
                        /\ clear
                        /\ termApplied' = Bump(termApplied, j)
                   ELSE UNCHANGED << chats, storeFlags, termApplied >>
           [] status = "failed" ->
                /\ loops' = [loops EXCEPT ![l].state = "stopped"]
                /\ chats' = addMessage(chats, chatId, Msg("assistant", ErrorMsg("boom", "Job failed")))
                /\ clear
                /\ termSignals' = Bump(termSignals, j)
                /\ termApplied' = IF HasChat(chats, chatId) THEN Bump(termApplied, j) ELSE termApplied
           [] status \in {"running", "queued"} ->
                /\ loops' = [loops EXCEPT ![l].state = "scheduled"]
                /\ currentJob' = [job_id |-> j, status |-> status]
                /\ UNCHANGED << chats, loadingChatId, isLoading, isStreaming, streamingCleanup,
                                termSignals, termApplied >>
           [] OTHER ->
                /\ loops' = [loops EXCEPT ![l].state = "stopped"]
                /\ UNCHANGED << chats, storeFlags, termSignals, termApplied >>
      /\ UNCHANGED << currentChatId, config, input, artifact, nextChatId, sends, subs, timers, nDeletes,
                      cancelled >>

\* PollThrows that retries: the catch block schedules the next request
PollThrowsRetries(l) ==
  /\ l \in DOMAIN loops
  /\ loops[l].state = "inflight"
  /\ loops' = [loops EXCEPT ![l].state = "scheduled"]
  /\ IF loops[l].kind = "startJobPolling"
     THEN startJobPollingClear
     ELSE pollJobStatusClear /\ UNCHANGED streamingCleanup
  /\ UNCHANGED << chats, currentChatId, config, input, artifact, nextChatId, sends, subs, timers,
                  nDeletes, history >>

\* getJobStatus throws: the catch blocks (lines 680-683 and 162-171)
PollThrows(l) ==
  /\ l \in DOMAIN loops
  /\ loops[l].state = "inflight"
  /\ loops' = [loops EXCEPT ![l].state = "stopped"]
  /\ IF loops[l].kind = "startJobPolling"
     THEN startJobPollingClear
     ELSE pollJobStatusClear /\ UNCHANGED streamingCleanup
  /\ UNCHANGED << chats, currentChatId, config, input, artifact, nextChatId, sends, subs, timers,
                  nDeletes, history >>

\* setTimeout(poll, 1000) fires: the next status request is issued
PollTick(l) ==
  /\ l \in DOMAIN loops
  /\ loops[l].state = "scheduled"
  /\ loops[l].requests < MaxPolls
  /\ loops' = [loops EXCEPT ![l].state = "inflight", ![l].requests = @ + 1]
  /\ UNCHANGED << chats, currentChatId, config, input, artifact, storeFlags, nextChatId, sends, subs,
                  timers, nDeletes, history >>

\* restartJobStreaming(chatId, jobId) (lines 186-305), called for the active
\* job when the tab becomes visible again
RestartJobStreaming(j) ==
  LET chatId  == sends[j].chatId
      stopped == streamingCleanup # NoCleanup
      subsS   == SubsAfterStop
  IN  /\ j \in JobIds
      /\ JobActive /\ currentJob.job_id = j
      /\ NCalls < MaxCalls
      /\ loops' = LoopsAfterStop
      /\ sends' = SendsAfterStop
      /\ currentJob' = IF stopped THEN NoJob ELSE currentJob
      /\ cancelled' = cancelled \ {j}
      /\ IF HasChat(chats, chatId)
         THEN /\ subs' = Append(subsS, NewSub(j, chatId, "restart"))
              /\ loadingChatId' = chatId
              /\ isLoading' = FALSE
              /\ isStreaming' = TRUE
              /\ streamingCleanup' = [kind |-> "push", id |-> Len(subs) + 1]
         ELSE /\ subs' = subsS
              /\ loadingChatId' = IF stopped THEN NoChat ELSE loadingChatId
              /\ isStreaming' = IF stopped THEN FALSE ELSE isStreaming
              /\ streamingCleanup' = NoCleanup
              /\ UNCHANGED isLoading
  /\ UNCHANGED << chats, currentChatId, config, input, artifact, nextChatId, timers, nDeletes,
                  termSignals, termApplied >>

\* ------------------------------------------------------------------- Next
Next ==
  \/ \E c \in 1..(nextChatId - 1) : DeleteChat(c)
  \/ StopStreaming
  \/ SendStart
  \/ \E s \in DOMAIN sends : CreateChatResponse(s)
  \/ \E s \in DOMAIN sends : CreateChatThrows(s)
  \/ \E s \in DOMAIN sends, o \in {"ok", "noid", "throw"} : CreateJobResponse(s, o)
  \/ \E s \in DOMAIN sends, o \in {"ok", "throw"} : SendReplyResponse(s, o)
  \/ \E s \in DOMAIN sends : IntervalTick(s)
  \/ \E k \in DOMAIN subs, d \in DataChunks : OnData(k, d)
  \/ \E k \in DOMAIN subs, r \in TermFrames : OnComplete(k, r)
  \/ \E k \in DOMAIN subs : OnError(k)
  \/ \E k \in timers : TimerFire(k)
  \/ \E l \in DOMAIN loops, st \in PollStatuses : PollJobStatusResponse(l, st)
  \/ \E l \in DOMAIN loops, st \in PollStatuses : StartJobPollingResponse(l, st)
  \/ \E l \in DOMAIN loops : PollThrows(l)
  \/ \E l \in DOMAIN loops : PollTick(l)
  \/ \E j \in DOMAIN sends : RestartJobStreaming(j)

Spec == Init /\ [][Next]_vars

\* ================================================================ claims
LastMessage(cs, chatId) == Messages(cs, chatId)[Len(Messages(cs, chatId))]

LiveSubs(j)  == { k \in DOMAIN subs : subs[k].job = j /\ subs[k].state = "open" }
LiveLoops(j) == { l \in DOMAIN loops : loops[l].job = j /\ loops[l].state \in {"inflight", "scheduled"} }

\* an event of job j is delivered: a push frame or error, a poll answer or
\* failure, or a poll timer
JobEvent(j) ==
  \/ \E k \in DOMAIN subs :
       /\ subs[k].job = j
       /\ \/ \E d \in DataChunks : OnData(k, d)
          \/ \E r \in TermFrames : OnComplete(k, r)
          \/ OnError(k)
  \/ \E l \in DOMAIN loops :
       /\ loops[l].job = j
       /\ \/ \E st \in PollStatuses : PollJobStatusResponse(l, st)
          \/ \E st \in PollStatuses : StartJobPollingResponse(l, st)
          \/ PollThrows(l)
          \/ PollTick(l)

\* C1: every job that has received at least one terminal signal (a terminal
\* push frame, a terminal poll answer or the poll timeout) has had exactly
\* one terminal transcript mutation applied.
C1_ExactlyOneTerminalMutation ==
  \A j \in DOMAIN termSignals : termSignals[j] >= 1 => termApplied[j] = 1

\* the "never twice" half of C1 alone
C1_AtMostOneTerminalMutation ==
  \A j \in DOMAIN termApplied : termApplied[j] <= 1

\* C2: an event of a job that was the current, non-terminal job when
\* stopStreaming was called leaves every conversation's messages unchanged.
C2_NoMutationAfterCancel ==
  [][ \A j \in cancelled : JobEvent(j) => chats' = chats ]_vars

\* C3: stopStreaming called while the current job is queued or running
\* leaves isLoading = false, isStreaming = false and currentJob = null.
C3_CancelClearsFlags ==
  [][ (StopStreaming /\ JobActive)
        => (isLoading' = FALSE /\ isStreaming' = FALSE /\ currentJob' = NoJob) ]_vars

\* live delivery subscriptions of a conversation: open event streams, poll
\* loops with a request in flight or a timer pending, running intervals
LiveOnChat(c) ==
    Cardinality({ k \in DOMAIN subs : subs[k].chat = c /\ subs[k].state = "open" })
  + Cardinality({ l \in DOMAIN loops : loops[l].chat = c
                                        /\ loops[l].state \in {"inflight", "scheduled"} })
  + Cardinality({ s \in DOMAIN sends : sends[s].chatId = c /\ sends[s].pc = "interval" })

\* C4: every conversation has at most one live delivery subscription.
C4_AtMostOneSubscription ==
  \A c \in 1..(nextChatId - 1) : LiveOnChat(c) <= 1

\* job j3 has no terminal state yet and a later job j4 of the same
\* conversation has been submitted (created, its push channel opened)
Superseded(j3) ==
  /\ j3 \in JobIds
  /\ termSignals[j3] = 0
  /\ \E j4 \in JobIds : j4 > j3 /\ sends[j4].chatId = sends[j3].chatId

\* C5: once a later job of the same conversation has been submitted, the
\* earlier unfinished job has no live subscription, and none of its events
\* changes the transcript.
C5_SupersededJobIsSilent ==
  /\ [](\A j \in DOMAIN sends : Superseded(j) => LiveSubs(j) = {} /\ LiveLoops(j) = {})
  /\ [][ \A j \in DOMAIN sends : (Superseded(j) /\ JobEvent(j)) => chats' = chats ]_vars

\* C6: an incremental push frame of a job that is not the current job
\* changes neither the transcript nor the job status.
C6_StaleIncrementDiscarded ==
  [][ \A k \in DOMAIN subs : \A d \in DataChunks :
        (OnData(k, d) /\ (currentJob = NoJob \/ currentJob.job_id # subs[k].job))
          => (chats' = chats /\ currentJob' = currentJob) ]_vars

\* a terminal failure is applied: a failed terminal frame, a failed poll
\* answer, or the attempt ceiling of pollJobStatus
TerminalFailure(chatId) ==
  \/ \E k \in DOMAIN subs : \E r \in TermFrames :
       subs[k].chat = chatId /\ r.status = "failed" /\ OnComplete(k, r)
  \/ \E l \in DOMAIN loops :
       /\ loops[l].chat = chatId
       /\ \/ PollJobStatusResponse(l, "failed")
          \/ StartJobPollingResponse(l, "failed")
          \/ \E st \in PollStatuses \ {"completed", "failed"} :
               PollJobStatusResponse(l, st) /\ loops'[l].state = "stopped"

\* the conversation shows the failure as one error-marked assistant message:
\* its last message is error-marked, and the messages before it are the
\* old ones (the error was appended, or it replaced the streamed reply)
ShownAsOneError(chatId) ==
  LET old == Messages(chats, chatId)
      new == Messages(chats', chatId)
  IN  /\ Len(new) > 0
      /\ IsErrorMsg(new[Len(new)])
      /\ \/ SubSeq(new, 1, Len(new) - 1) = old
         \/ /\ Len(new) = Len(old)
            /\ old[Len(old)].role = "assistant"
            /\ SubSeq(new, 1, Len(new) - 1) = SubSeq(old, 1, Len(old) - 1)

C8_PollFailureSurfaced ==
  [][ \A l \in DOMAIN loops :
        (PollThrows(l) /\ HasChat(chats, loops[l].chat))
          => /\ Len(Messages(chats', loops[l].chat)) = Len(Messages(chats, loops[l].chat)) + 1
             /\ IsErrorMsg(LastMessage(chats', loops[l].chat)) ]_vars

\* C9: a push failure starts one poll loop for the same job, a job never has
\* two fallback poll loops running, and a poll failure opens no push channel.
C9_ExactlyOneFallback ==
  /\ [](\A j \in DOMAIN sends :
          Cardinality(LiveLoops(j)) <= 1)
  /\ [][ \A k \in DOMAIN subs :
           OnError(k) => /\ Len(loops') = Len(loops) + 1
                         /\ loops'[Len(loops')].job = subs[k].job ]_vars
  /\ [][ \A l \in DOMAIN loops : PollThrows(l) => subs' = subs ]_vars

\* C10: no poll loop issues more than maxAttempts status requests.
C10_AttemptCeilingEverywhere ==
  \A l \in DOMAIN loops : loops[l].requests <= maxAttempts

\* the part of C10 that pollJobStatus implements: its loop stops at the
\* ceiling, with the timeout message as the conversation's last message
C10_PollJobStatusCeiling ==
  \A l \in DOMAIN loops :
    loops[l].kind = "pollJobStatus" => loops[l].requests <= maxAttempts

\* a step that calls updateLastMessage(chatId, ..): one firing of the
\* normal-mode interval that reveals a character, an incremental frame or a
\* terminal frame that finds an assistant message last
CallsUpdateLast(chatId) ==
  \/ \E s \in DOMAIN sends :
       /\ sends[s].chatId = chatId
       /\ sends[s].charIndex < Len(ReplyChars)
       /\ IntervalTick(s)
  \/ \E k \in DOMAIN subs :
       /\ subs[k].chat = chatId
       /\ \/ \E d \in DataChunks : OnData(k, d)
          \/ \E r \in TermFrames : OnComplete(k, r)

\* C11: a step that calls updateLastMessage on a conversation whose last
\* message is a user message, or which has no message, leaves the message
\* list unchanged unless it appends; it never rewrites the user message.
C11_ReplaceLastOnlyAssistant ==
  [][ \A c \in 1..(nextChatId - 1) :
        (CallsUpdateLast(c) /\ HasChat(chats, c) /\ ~LastIsAssistant(chats, c))
          => \A i \in DOMAIN Messages(chats, c) :
               Messages(chats', c)[i] = Messages(chats, c)[i] ]_vars

\* C12: a message that is not the last one of its conversation never changes,
\* and a user message never changes, last or not.
C12_EarlierMessagesImmutable ==
  [][ \A c \in 1..(nextChatId - 1) :
        \A i \in DOMAIN Messages(chats, c) :
          (i \in DOMAIN Messages(chats', c)
             /\ (i < Len(Messages(chats, c)) \/ Messages(chats, c)[i].role = "user"))
            => Messages(chats', c)[i] = Messages(chats, c)[i] ]_vars

\* Scenario A: one sendMessage call, its job's event stream the only
\* subscription, no poll loop, nothing deleted
ScenarioA ==
  /\ Len(sends) = 1
  /\ Len(subs) = 1
  /\ subs[1].origin = "send"
  /\ loops = <<>>
  /\ nDeletes = 0

\* the first n fragments of the stream, as they are
PlainText(n) == [i \in 1..n |-> DataFrames[((i - 1) % Len(DataFrames)) + 1]]

\* the first n fragments, each followed by a line break
TextWithBreaks(n) ==
  [i \in 1..(2 * n) |-> IF i % 2 = 1 THEN PlainText(n)[(i + 1) \div 2] ELSE "\n"]

\* the transcript of scenario A while n fragments have arrived and shown as
\* text: the user message, then the assistant message once n > 0
StreamingTranscript(n, text) ==
  << Msg("user", UserContent) >>
    \o (IF n = 0 THEN <<>> ELSE << Msg("assistant", text) >>)

\* the terminal frame of scenario A has been applied
ScenarioADone ==
  /\ ScenarioA
  /\ subs[1].state = "done"
  /\ currentJob # NoJob
  /\ currentJob.status = "completed"

\* the transcript and the flag the scenario ends with
ScenarioAEnd ==
  /\ Messages(chats, subs[1].chat) = << Msg("user", UserContent), Msg("assistant", << "R" >>) >>
  /\ isStreaming = FALSE

\* C13 as stated: in scenario A the last message is the fragments received
\* so far, unchanged ("Hello", then "Hello world"), and the completed frame
\* with result R leaves the user message and one assistant message R, with
\* isStreaming false.
C13_ScenarioA_PlainIncrements ==
  /\ (ScenarioA /\ subs[1].state = "open")
       => Messages(chats, subs[1].chat)
            = StreamingTranscript(subs[1].nData, PlainText(subs[1].nData))
  /\ ScenarioADone => ScenarioAEnd

\* C13 amended: the same, with every fragment followed by a line break in
\* the last message ("Hello\n", then "Hello\n world\n").
C13_ScenarioA_LineBreaks ==
  /\ (ScenarioA /\ subs[1].state = "open")
       => Messages(chats, subs[1].chat)
            = StreamingTranscript(subs[1].nData, TextWithBreaks(subs[1].nData))
  /\ ScenarioADone => ScenarioAEnd

\* scenario A has run to its end: both fragments, then the completed frame
C13_Witness ==
  /\ ScenarioADone
  /\ subs[1].nData = 2
  /\ ScenarioAEnd

\* Scenario B: one sendMessage call whose event stream failed before any
\* frame, its pollJobStatus loop the only poll loop, nothing deleted
ScenarioB ==
  /\ Len(sends) = 1
  /\ Len(subs) = 1
  /\ subs[1].origin = "send"
  /\ subs[1].state = "failed"
  /\ subs[1].nData = 0
  /\ Len(loops) = 1
  /\ nDeletes = 0

\* the transcript scenario B ends with
ScenarioBEnd ==
  << Msg("user", UserContent), Msg("assistant", << ErrPrefix, "boom" >>) >>

\* C14: in scenario B the transcript is the user message alone while the
\* poll loop runs; the failed answer to the second status request appends
\* the one error message "Error: boom" and stops the loop; a stopped loop
\* issues no further request.
C14_ScenarioB ==
  /\ []( (ScenarioB /\ loops[1].state \in {"inflight", "scheduled"})
           => Messages(chats, subs[1].chat) = << Msg("user", UserContent) >> )
  /\ [][ (ScenarioB /\ loops[1].requests = 2 /\ PollJobStatusResponse(1, "failed"))
           => /\ Messages(chats', subs[1].chat) = ScenarioBEnd
              /\ loops'[1].state = "stopped"
              /\ loops'[1].requests = 2 ]_vars
  /\ [][ (ScenarioB /\ loops[1].state = "stopped") => loops'[1] = loops[1] ]_vars

\* scenario B has run to its end: two status requests, the second answered
\* failed
C14_Witness ==
  /\ ScenarioB
  /\ loops[1].requests = 2
  /\ loops[1].state = "stopped"
  /\ Messages(chats, subs[1].chat) = ScenarioBEnd

\* C15: a current job whose status is completed or failed keeps that status
\* for as long as it is the current job: a step either leaves it, clears the
\* job reference, or makes another job current.
C15_TerminalStatusIsFinal ==
  [][ (currentJob # NoJob /\ currentJob.status \in {"completed", "failed"})
        => \/ currentJob' = NoJob
           \/ currentJob'.job_id # currentJob.job_id
           \/ currentJob'.status = currentJob.status ]_vars

\* C16 as stated: no state has isLoading and isStreaming cleared while
\* currentJob still references a job whose status is completed or failed.
C16_JobAndFlagsClearedTogether ==
  ~( /\ currentJob # NoJob
     /\ currentJob.status \in {"completed", "failed"}
     /\ isLoading = FALSE
     /\ isStreaming = FALSE )

\* a terminal result of the pull channel is applied by poll loop l in this
\* step: a completed or failed answer, or the attempt ceiling
PollTerminalApplied(l) ==
  \/ PollJobStatusResponse(l, "completed")
  \/ PollJobStatusResponse(l, "failed")
  \/ \E st \in PollStatuses \ {"completed", "failed"} :
       PollJobStatusResponse(l, st) /\ loops'[l].state = "stopped"
  \/ StartJobPollingResponse(l, "completed") /\ HasChat(chats, loops[l].chat)
  \/ StartJobPollingResponse(l, "failed")

\* C16 amended: a terminal result applied by the pull channel clears
\* currentJob, isLoading and isStreaming in that one step; a terminal frame
\* of the push channel clears the two flags in its step and leaves
\* currentJob to the 3 s timer.
C16_PullClearsTogether ==
  /\ [][ \A l \in DOMAIN loops :
           PollTerminalApplied(l)
             => (currentJob' = NoJob /\ isLoading' = FALSE /\ isStreaming' = FALSE) ]_vars
  /\ [][ \A k \in DOMAIN subs : \A r \in TermFrames :
           OnComplete(k, r)
             => /\ isLoading' = FALSE /\ isStreaming' = FALSE
                /\ (currentJob # NoJob => currentJob' # NoJob) ]_vars

\* a poll loop has applied a terminal result: it is stopped with its final
\* message last, and the job reference and both flags are cleared
C16_Witness ==
  /\ currentJob = NoJob
  /\ ~isLoading
  /\ ~isStreaming
  /\ \E l \in DOMAIN loops :
       /\ loops[l].state = "stopped"
       /\ HasChat(chats, loops[l].chat)
       /\ LastMessage(chats, loops[l].chat).content
            \in { PollFinalMessage("R"), << ErrPrefix, "boom" >> }

\* C17: the step in which a push subscription reports a connection error
\* starts one poll loop for the same job and conversation, and that loop's
\* first status request is already issued at the end of the step (in
\* flight, not waiting for a timer).
C17_FallbackStartsInSameStep ==
  [][ \A k \in DOMAIN subs :
        OnError(k)
          => /\ Len(loops') = Len(loops) + 1
             /\ loops'[Len(loops')].job = subs[k].job
             /\ loops'[Len(loops')].chat = subs[k].chat
             /\ loops'[Len(loops')].state = "inflight"
             /\ loops'[Len(loops')].requests = 1
             /\ \A l \in DOMAIN loops : loops'[l] = loops[l] ]_vars

\* a push subscription has failed before any terminal frame and the first
\* status request of its job is in flight
C17_Witness ==
  \E k \in DOMAIN subs : \E l \in DOMAIN loops :
    /\ subs[k].state = "failed"
    /\ termSignals[subs[k].job] = 0
    /\ loops[l].job = subs[k].job
    /\ loops[l].state = "inflight"
    /\ loops[l].requests = 1
    /\ loops[l].attempts = 0

\* poll loop l receives the answer st to its status request in this step
PollAnswer(l, st) ==
  \/ PollJobStatusResponse(l, st)
  \/ StartJobPollingResponse(l, st)

\* the terminal result is reported: the job reference and the flags are
\* cleared, and the final message is appended where the conversation exists
TerminalReported(l) ==
  /\ currentJob' = NoJob
  /\ isLoading' = FALSE
  /\ isStreaming' = FALSE
  /\ HasChat(chats, loops[l].chat)
       => Len(Messages(chats', loops[l].chat)) = Len(Messages(chats, loops[l].chat)) + 1

\* the four statuses of a job
JobStatuses == {"queued", "running", "completed", "failed"}

\* C18: below the attempt ceiling a poll loop schedules its next request
\* exactly when the answer is queued or running; a completed or failed
\* answer is reported and stops the loop; a stopped loop issues no request.
C18_RescheduleIffRunning ==
  /\ [][ \A l \in DOMAIN loops : \A st \in JobStatuses :
           (PollAnswer(l, st) /\ loops[l].attempts + 1 < maxAttempts)
             => (loops'[l].state = "scheduled" <=> st \in {"queued", "running"}) ]_vars
  /\ [][ \A l \in DOMAIN loops : \A st \in {"completed", "failed"} :
           PollAnswer(l, st) => (loops'[l].state = "stopped" /\ TerminalReported(l)) ]_vars
  /\ [][ \A l \in DOMAIN loops :
           loops[l].state = "stopped" => loops'[l] = loops[l] ]_vars

\* a poll loop reschedules only on queued or running, whatever the answer:
\* pollJobStatus also reschedules on a status outside the four
C18_RescheduleOnlyIfRunning ==
  [][ \A l \in DOMAIN loops : \A st \in PollStatuses :
        (PollAnswer(l, st) /\ loops'[l].state = "scheduled")
          => st \in {"queued", "running"} ]_vars

\* the terminal part of C18 alone
C18_TerminalAnswerReported ==
  [][ \A l \in DOMAIN loops : \A st \in {"completed", "failed"} :
        PollAnswer(l, st) => (loops'[l].state = "stopped" /\ TerminalReported(l)) ]_vars

\* C19: a status request that throws stops its poll loop, no timer is left
\* pending for it, and a stopped loop never issues another request.
C19_PollErrorStopsLoop ==
  /\ [][ \A l \in DOMAIN loops : PollThrows(l) => loops'[l].state = "stopped" ]_vars
  /\ [][ \A l \in DOMAIN loops :
           loops[l].state = "stopped" => loops'[l].requests = loops[l].requests ]_vars

\* a pollJobStatus loop has stopped although its job received no terminal
\* signal: its status request threw
C19_Witness ==
  \E l \in DOMAIN loops :
    /\ loops[l].kind = "pollJobStatus"
    /\ loops[l].state = "stopped"
    /\ loops[l].attempts < maxAttempts
    /\ termSignals[loops[l].job] = 0

\* no event of the job of subscription k has arrived yet: its event stream
\* is open and has delivered nothing, and the job has no poll loop
NoEventYet(k) ==
  /\ subs[k].origin = "send"
  /\ subs[k].state = "open"
  /\ subs[k].nData = 0
  /\ \A l \in DOMAIN loops : loops[l].job # subs[k].job
  /\ \A k2 \in DOMAIN subs : k2 # k => subs[k2].job # subs[k].job

\* C20: when the job of a sendMessage call is created the call's user
\* message is already in the conversation, the job is queued before its
\* event stream is opened, and the user message stays the last message of
\* the conversation until the first event of that job arrives.
C20_UserMessageThenQueuedJob ==
  /\ [][ \A s \in DOMAIN sends :
           CreateJobResponse(s, "ok")
             => /\ HasChat(chats, sends[s].chatId)
                    => LastMessage(chats, sends[s].chatId) = Msg("user", UserContent)
                /\ QueuedJob(s).status = "queued"
                /\ \A k \in DOMAIN subs : subs[k].job # s
                /\ subs'[Len(subs')].job = s ]_vars
  /\ []( \A k \in DOMAIN subs :
           (NoEventYet(k) /\ HasChat(chats, subs[k].chat))
             => LastMessage(chats, subs[k].chat) = Msg("user", UserContent) )

\* the ordering part of C20 alone
C20_UserMessageBeforeJob ==
  [][ \A s \in DOMAIN sends :
        CreateJobResponse(s, "ok")
          => /\ HasChat(chats, sends[s].chatId)
                 => \E i \in DOMAIN Messages(chats, sends[s].chatId) :
                      Messages(chats, sends[s].chatId)[i] = Msg("user", UserContent)
             /\ \A k \in DOMAIN subs : subs[k].job # s
             /\ subs'[Len(subs')].job = s ]_vars

\* ============================================================ artifact links
\* Strings are sequences of characters here, so that startsWith is computed.
NoRef        == <<>>   \* null, undefined or '': all falsy
NoLink       == << "-" >>
API_BASE_URL == << "h", "t", "t", "p", ":", "/", "/", "b" >>
HttpPrefix   == << "h", "t", "t", "p" >>

\* the references a terminal result can carry: none, an absolute URL, a
\* path from the root, a relative path, a relative path that begins "http"
DocxRefs ==
  { NoRef,
    << "h", "t", "t", "p", ":", "/", "/", "x", "/", "a" >>,
    << "/", "f", "/", "a" >>,
    << "f", "/", "a" >>,
    << "h", "t", "t", "p", "d", "/", "a" >> }

LinkJobIds == { << "1" >>, << "2" >> }

\* s.startsWith(prefix)
StartsWith(s, prefix) ==
  Len(s) >= Len(prefix) /\ SubSeq(s, 1, Len(prefix)) = prefix

\* sendMessage / restartJobStreaming onComplete (lines 542-550, 254-262)
PushDocxUrl(docxPath, docxUrlField, jobId) ==
  IF docxPath # NoRef \/ docxUrlField # NoRef
  THEN IF docxUrlField # NoRef
       THEN (IF StartsWith(docxUrlField, HttpPrefix)
             THEN docxUrlField
             ELSE API_BASE_URL \o docxUrlField)
       ELSE API_BASE_URL \o << "/", "j", "o", "b", "s", "/" >> \o jobId
              \o << "/", "d", "o", "c", "x" >>
  ELSE NoLink

\* PollJobStatusDocxUrl that prefixes every reference
PollDocxUrlAlwaysPrefixed(output_docx_url) ==
  IF output_docx_url # NoRef THEN API_BASE_URL \o output_docx_url ELSE NoLink

\* pollJobStatus (lines 656-663)
PollJobStatusDocxUrl(output_docx_url) ==
  IF output_docx_url # NoRef
  THEN (IF StartsWith(output_docx_url, HttpPrefix)
        THEN output_docx_url
        ELSE API_BASE_URL \o output_docx_url)
  ELSE NoLink

\* startJobPolling (lines 115-121)
StartJobPollingDocxUrl(output_docx_url) ==
  IF output_docx_url # NoRef
  THEN (IF StartsWith(output_docx_url, HttpPrefix)
        THEN output_docx_url
        ELSE API_BASE_URL \o output_docx_url)
  ELSE NoLink

\* a terminal result with its references, no link built yet
LinkInit ==
  /\ InitChats
  /\ InitConfig
  /\ InitInput
  /\ InitDelivery
  /\ artifact \in [path : {"none"}, docxPath : DocxRefs, docxUrl : DocxRefs,
                   jobId : LinkJobIds, link : {NoLink}]

LinkUnchanged ==
  UNCHANGED << chats, currentChatId, config, input, storeFlags, nextChatId, sends,
               subs, loops, timers, nDeletes, history >>

\* the result arrives as the terminal frame of the event stream
PushLink ==
  /\ artifact.path = "none"
  /\ artifact' = [artifact EXCEPT !.path = "push",
                    !.link = PushDocxUrl(artifact.docxPath, artifact.docxUrl, artifact.jobId)]
  /\ LinkUnchanged

\* the result arrives as the completed answer of pollJobStatus
PollJobStatusLink ==
  /\ artifact.path = "none"
  /\ artifact' = [artifact EXCEPT !.path = "pollJobStatus",
                    !.link = PollJobStatusDocxUrl(artifact.docxUrl)]
  /\ LinkUnchanged

\* the result arrives as the completed answer of startJobPolling
StartJobPollingLink ==
  /\ artifact.path = "none"
  /\ artifact' = [artifact EXCEPT !.path = "startJobPolling",
                    !.link = StartJobPollingDocxUrl(artifact.docxUrl)]
  /\ LinkUnchanged

LinkNext ==
  \/ PushLink
  \/ PollJobStatusLink
  \/ StartJobPollingLink

LinkSpec == LinkInit /\ [][LinkNext]_vars

\* the rule of the claim: a reference starting with "http" unchanged, any
\* other reference prefixed with the base
Normalized(ref) ==
  IF StartsWith(ref, HttpPrefix) THEN ref ELSE API_BASE_URL \o ref

\* the reference a result carries: its URL field, else its path
CarriedRef(a) == IF a.docxUrl # NoRef THEN a.docxUrl ELSE a.docxPath

\* C21 as stated: on every path, a result that carries an artifact reference
\* gets the link Normalized(reference).
C21_LinkIsNormalizedReference ==
  (artifact.path # "none" /\ CarriedRef(artifact) # NoRef)
    => artifact.link = Normalized(CarriedRef(artifact))

\* C21 amended: on every path a result with an output_docx_url gets the link
\* Normalized(output_docx_url); a result with only an output_docx_path gets
\* the link base/jobs/<job id>/docx on the push path and no link on the poll
\* paths; a result with neither gets no link.
C21_LinkRule ==
  artifact.path # "none"
    => artifact.link =
         IF artifact.docxUrl # NoRef
         THEN Normalized(artifact.docxUrl)
         ELSE IF artifact.path = "push" /\ artifact.docxPath # NoRef
              THEN API_BASE_URL \o << "/", "j", "o", "b", "s", "/" >> \o artifact.jobId
                     \o << "/", "d", "o", "c", "x" >>
              ELSE NoLink

\* a relative output_docx_url has been linked on a poll path
C21_Witness ==
  /\ artifact.path = "pollJobStatus"
  /\ artifact.docxUrl = << "/", "f", "/", "a" >>
  /\ artifact.link = << "h", "t", "t", "p", ":", "/", "/", "b", "/", "f", "/", "a" >>

\* ---------------------------------------------------------------- C22
\* Nothing is left that could still write the store: every sendMessage call
\* has run to its end, no subscription is open, no poll loop has a request
\* in flight or a timer pending, and no delayed clear is pending.
Quiescent ==
  /\ \A s \in DOMAIN sends : sends[s].pc \in {"done", "rejected"}
  /\ \A k \in DOMAIN subs : ~ChannelOpen(k)
  /\ \A l \in DOMAIN loops : loops[l].state = "stopped"
  /\ timers = {}

\* No conversation was deleted and no active job was cut off by stopStreaming.
Undisturbed ==
  /\ nDeletes = 0
  /\ cancelled = {}

\* C22: once every request of every sendMessage / restartJobStreaming /
\* startJobPolling call has been answered and nothing is pending any more,
\* isLoading and isStreaming are false, whatever statuses were returned.
C22_FlagsClearedWhenDone ==
  (NCalls > 0 /\ Quiescent /\ Undisturbed) => (~isLoading /\ ~isStreaming)

\* ---------------------------------------------------------------- C23
\* C23: the delayed clear scheduled by the terminal event of job J only
\* clears J: when it fires while another job, still queued or running, is the
\* current one, currentJob still references that job afterwards.
C23_DelayedClearOnlyOwnJob ==
  [][\A k \in DOMAIN subs :
       (TimerFire(k) /\ JobActive /\ currentJob.job_id # subs[k].job)
         => currentJob' = currentJob]_vars

\* ---------------------------------------------------------------- C24
\* The submission of the s-th sendMessage call fails: api.createJob throws
\* or answers without a job id, or the normal-mode request throws.
SubmissionFails(s) ==
  \/ CreateJobResponse(s, "noid")
  \/ CreateJobResponse(s, "throw")
  \/ SendReplyResponse(s, "throw")

\* What the failure leaves behind in the store, and the channels untouched.
SubmissionFailureClears ==
  /\ ~isLoading' /\ ~isStreaming'
  /\ loadingChatId' = NoChat /\ currentJob' = NoJob /\ streamingCleanup' = NoCleanup
  /\ subs' = subs /\ loops' = loops /\ timers' = timers

\* One assistant error message is appended to the conversation chatId,
\* behind a user message, and nothing else in the list changes.
OneErrorAppended(chatId) ==
  LET before == Messages(chats, chatId)
      after  == Messages(chats', chatId)
  IN  /\ HasChat(chats', chatId)
      /\ Len(after) = Len(before) + 1
      /\ SubSeq(after, 1, Len(before)) = before
      /\ IsErrorMsg(after[Len(after)])
      /\ \E i \in DOMAIN before : before[i].role = "user"
      /\ \A i \in DOMAIN chats : chats[i].id # chatId => chats'[i] = chats[i]

\* C24 as stated: a failed submission always appends exactly one assistant
\* error message and clears the delivery state, opening no channel.
C24_FailureAlwaysAppendsError ==
  [][\A s \in DOMAIN sends :
       SubmissionFails(s) => (OneErrorAppended(sends[s].chatId) /\ SubmissionFailureClears)]_vars

\* C24: a failed submission appends exactly one assistant error message
\* behind the user message when the conversation is still in the list, and
\* leaves the list unchanged when it is not; in both cases the flags are
\* false, loadingChatId, currentJob and streamingCleanup are null, and no
\* delivery channel is opened.
C24_SubmissionFailure ==
  [][\A s \in DOMAIN sends :
       SubmissionFails(s) =>
         /\ SubmissionFailureClears
         /\ IF HasChat(chats, sends[s].chatId)
            THEN OneErrorAppended(sends[s].chatId)
            ELSE chats' = chats]_vars

\* a submission failed with no job id and its error is the last message
C24_Witness ==
  \E s \in DOMAIN sends :
    /\ sends[s].pc = "done" /\ sends[s].agent_id # NoAgent
    /\ HasChat(chats, sends[s].chatId)
    /\ LET ms == Messages(chats, sends[s].chatId)
       IN  /\ Len(ms) = 2
           /\ ms[1] = Msg("user", UserContent)
           /\ ms[2] = Msg("assistant", ErrorMsg("No job ID received", "Failed to send message"))
    /\ ~isLoading /\ ~isStreaming /\ currentJob = NoJob /\ streamingCleanup = NoCleanup
    /\ subs = <<>> /\ loops = <<>>

\* ---------------------------------------------------------------- C25
\* C25: stopStreaming with no cleanup stored changes nothing in the store;
\* with a cleanup stored it runs that cleanup (the subscription is closed,
\* the poll timer or the interval is cleared) and streamingCleanup is null
\* afterwards.
C25_StopStreamingFrame ==
  [][StopStreaming =>
       IF streamingCleanup = NoCleanup
       THEN UNCHANGED << chats, currentChatId, config, input, storeFlags, nextChatId,
                         sends, subs, loops, timers >>
       ELSE /\ streamingCleanup' = NoCleanup
            /\ subs' = SubsAfterStop
            /\ loops' = LoopsAfterStop
            /\ sends' = SendsAfterStop
            /\ UNCHANGED << chats, currentChatId, timers >>]_vars

\* stopStreaming was called for the active job while no cleanup was stored
\* (the stream had failed over to polling): the job is still current and
\* the flags are still set
C25_Witness ==
  /\ JobActive /\ currentJob.job_id \in cancelled
  /\ streamingCleanup = NoCleanup
  /\ isLoading /\ isStreaming /\ loadingChatId # NoChat

\* ---------------------------------------------------------------- C26
\* Some assistant message of the conversation holds `before` in the old
\* state and `after` in the new one, and no other message changes.
AssistantMessageGoes(chatId, before, after) ==
  LET old == Messages(chats, chatId)
      new == Messages(chats', chatId)
  IN  /\ Len(new) = Len(old)
      /\ \E i \in DOMAIN old :
           /\ old[i].role = "assistant" /\ old[i].content = before
           /\ new[i].role = "assistant" /\ new[i].content = after
           /\ \A k \in DOMAIN old : k # i => new[k] = old[k]

\* C26: in normal mode every tick of the simulated streaming of a reply of n
\* characters takes the assistant message added for the reply from the
\* prefix of length k to the prefix of length k + 1; the tick after the
\* n-th finds the message equal to the full reply, clears the interval and
\* sets isStreaming = false and loadingChatId = null.  (The conversation is
\* still in the list.)
C26_SimulatedStreaming ==
  [][\A s \in DOMAIN sends :
       (IntervalTick(s) /\ HasChat(chats, sends[s].chatId)) =>
         LET k == sends[s].charIndex
         IN  IF k < Len(ReplyChars)
             THEN AssistantMessageGoes(sends[s].chatId, SubSeq(ReplyChars, 1, k),
                                       SubSeq(ReplyChars, 1, k + 1))
             ELSE /\ AssistantMessageGoes(sends[s].chatId, ReplyChars, ReplyChars)
                  /\ sends'[s].pc = "done"
                  /\ ~isStreaming' /\ loadingChatId' = NoChat]_vars

\* ======================================================== transcript mutators
\* addMessage and updateLastMessage on their own: the store holds up to two
\* conversations restored from an earlier session, and the two mutators are
\* called with ids that are and ids that are not in the list.
MaxMessages == 2

\* a time before this session
Earlier == "t0"

MutatorIds == {1, 2}

\* transcripts restored from the last session
RestoredMessages ==
  { <<>>,
    << [role |-> "user", content |-> UserContent, timestamp |-> Earlier] >>,
    << [role |-> "user", content |-> UserContent, timestamp |-> Earlier],
       [role |-> "assistant", content |-> << "a" >>, timestamp |-> Earlier] >> }

RestoredChat(id, ms) ==
  [id |-> id, agent_id |-> NoAgent, messages |-> ms,
   title |-> IF ms = <<>> THEN NewChatTitle ELSE generateChatTitle(ms[1].content)]

\* the lists of conversations with distinct ids
RestoredChats ==
  {<<>>}
  \cup { << RestoredChat(a, ms) >> : a \in MutatorIds, ms \in RestoredMessages }
  \cup { << RestoredChat(a[1], ms1), RestoredChat(a[2], ms2) >> :
           a \in { b \in MutatorIds \X MutatorIds : b[1] # b[2] },
           ms1 \in RestoredMessages, ms2 \in RestoredMessages }

\* the messages and the contents the callers pass
NewMessages == { Msg("user", UserContent), Msg("assistant", <<>>) }
NewContents == { SubSeq(ReplyChars, 1, 1), ReplyChars }

MutatorInit ==
  /\ chats \in RestoredChats
  /\ currentChatId = NoChat
  /\ selectedProvider = NoName /\ selectedModel = NoName
  /\ selectedAgentId = NoAgent /\ chatMode = "normal"
  /\ InitInput
  /\ artifact = NoArtifact
  /\ InitDelivery

MutatorUnchanged ==
  UNCHANGED << currentChatId, config, input, artifact, storeFlags, nextChatId, sends, subs,
               loops, timers, nDeletes, history >>

\* a call of addMessage(chatId, m)
AddMessageCall(chatId, m) ==
  /\ Len(Messages(chats, chatId)) < MaxMessages
  /\ chats' = addMessage(chats, chatId, m)
  /\ MutatorUnchanged

\* a call of updateLastMessage(chatId, content)
UpdateLastMessageCall(chatId, content) ==
  /\ chats' = updateLastMessage(chats, chatId, content)
  /\ MutatorUnchanged

MutatorNext ==
  \/ \E c \in MutatorIds, m \in NewMessages : AddMessageCall(c, m)
  \/ \E c \in MutatorIds, x \in NewContents : UpdateLastMessageCall(c, x)

MutatorSpec == MutatorInit /\ [][MutatorNext]_vars

\* ---------------------------------------------------------------- C27
\* the list keeps its length and its ids, and every conversation with
\* another id is unchanged (message list and title included)
OnlyTargetChanges(chatId) ==
  /\ Len(chats') = Len(chats)
  /\ \A i \in DOMAIN chats :
       /\ chats'[i].id = chats[i].id
       /\ chats[i].id # chatId => chats'[i] = chats[i]

AddMessageEffect(chatId, m) ==
  /\ OnlyTargetChanges(chatId)
  /\ \A i \in DOMAIN chats :
       chats[i].id = chatId => chats'[i].messages = Append(chats[i].messages, m)
  /\ ~HasChat(chats, chatId) => chats' = chats

UpdateLastMessageEffect(chatId, content) ==
  /\ OnlyTargetChanges(chatId)
  /\ \A i \in DOMAIN chats :
       chats[i].id = chatId =>
         LET old == chats[i].messages
             new == chats'[i].messages
         IN  /\ Len(new) = Len(old)
             /\ chats'[i].title = chats[i].title
             /\ \A k \in DOMAIN old :
                  /\ new[k].role = old[k].role
                  /\ new[k].timestamp = old[k].timestamp
                  /\ new[k].content = IF k = Len(old) THEN content ELSE old[k].content
  /\ ~HasChat(chats, chatId) => chats' = chats

\* C27: addMessage and updateLastMessage change only the conversation with
\* the given id; addMessage appends m as the last element; updateLastMessage
\* keeps the message count, every role and every timestamp; both change
\* nothing when no conversation has the id.
C27_MutatorsFrame ==
  /\ [][\A c \in MutatorIds, m \in NewMessages :
          AddMessageCall(c, m) => AddMessageEffect(c, m)]_vars
  /\ [][\A c \in MutatorIds, x \in NewContents :
          UpdateLastMessageCall(c, x) => UpdateLastMessageEffect(c, x)]_vars

\* conversation 1 had a restored user message rewritten in place and a new
\* message appended, next to conversation 2, which is as it was restored
C27_Witness ==
  /\ Len(chats) = 2
  /\ \E i, j \in DOMAIN chats :
       /\ chats[i].id = 1
       /\ chats[i].messages =
            << [role |-> "user", content |-> ReplyChars, timestamp |-> Earlier],
               Msg("assistant", <<>>) >>
       /\ chats[j].id = 2
       /\ chats[j] = RestoredChat(2, chats[j].messages)
       /\ Len(chats[j].messages) = 2

\* ================================================================= ChatInput
\* The input box: the text typed so far, the connection flag set by
\* fetchModels, and handleSubmit in front of sendMessage.
MaxInput == 2

\* the keys pressed: a blank and a letter
InputChars == {" ", "u"}

Whitespace == {" ", "\n"}

\* String.prototype.trim
Trim(s) ==
  LET kept == { i \in DOMAIN s : s[i] \notin Whitespace }
  IN  IF kept = {} THEN <<>>
      ELSE SubSeq(s, CHOOSE i \in kept : \A k \in kept : i <= k,
                     CHOOSE i \in kept : \A k \in kept : k <= i)

\* the provider and the model fetchModels selects when none is selected
DefaultProvider == "p1"
DefaultModel    == "m1"

\* onChange of the textarea, which is disabled={isLoading || !isConnected}
Type(ch) ==
  /\ ~isLoading /\ isConnected
  /\ Len(message) < MaxInput
  /\ message' = Append(message, ch)
  /\ UNCHANGED << chats, currentChatId, config, isConnected, artifact, storeFlags, nextChatId,
                  sends, subs, loops, timers, nDeletes, history >>

\* fetchModels: api.getModels answers (ok) or throws
FetchModelsResponse(ok) ==
  /\ isConnected' = ok
  /\ IF ok /\ selectedProvider = NoName
     THEN selectedProvider' = DefaultProvider /\ selectedModel' = DefaultModel
     ELSE UNCHANGED << selectedProvider, selectedModel >>
  /\ UNCHANGED << chats, currentChatId, selectedAgentId, chatMode, message, artifact, storeFlags,
                  nextChatId, sends, subs, loops, timers, nDeletes, history >>

\* handleSubmit without the test of isLoading
HandleSubmitIgnoresLoading ==
  IF Trim(message) = <<>> \/ ~isConnected
  THEN UNCHANGED vars
  ELSE /\ message' = <<>>
       /\ UNCHANGED isConnected
       /\ sendMessage(Trim(message))

\* ChatInput.handleSubmit
HandleSubmit ==
  IF Trim(message) = <<>> \/ isLoading \/ ~isConnected
  THEN UNCHANGED vars
  ELSE /\ message' = <<>>
       /\ UNCHANGED isConnected
       /\ sendMessage(Trim(message))

InputNext ==
  \/ \E ch \in InputChars : Type(ch)
  \/ \E ok \in BOOLEAN : FetchModelsResponse(ok)
  \/ HandleSubmit
  \/ \E s \in DOMAIN sends : CreateChatResponse(s)
  \/ \E s \in DOMAIN sends, o \in {"ok", "noid", "throw"} : CreateJobResponse(s, o)
  \/ \E s \in DOMAIN sends, o \in {"ok", "throw"} : SendReplyResponse(s, o)
  \/ \E s \in DOMAIN sends : IntervalTick(s)
  \/ \E k \in DOMAIN subs, r \in TermFrames : OnComplete(k, r)
  \/ \E k \in timers : TimerFire(k)

InputSpec == Init /\ [][InputNext]_vars

\* ---------------------------------------------------------------- C28
\* C28: whenever the input box starts a sendMessage call, isLoading is
\* false, the backend is connected and the trimmed text is not empty (and
\* it is the trimmed text that is sent); so no call starts from the input
\* box while isLoading is true.
C28_SubmitGuard ==
  [][Len(sends') > Len(sends) =>
       /\ ~isLoading /\ isConnected
       /\ Trim(message) # <<>>
       /\ sends'[Len(sends')].content = Trim(message)
       /\ message' = <<>>]_vars

\* a first call is loading and the box holds text again: a submit now is
\* turned away
C28_Witness ==
  /\ Len(sends) = 1 /\ isLoading /\ isConnected
  /\ Trim(message) # <<>>

\* ==================================================================== setters
\* setSelectedProvider, setSelectedModel, setSelectedAgentId and setChatMode
\* on their own, over lists of restored conversations one of which is the
\* current one.
Providers  == {DefaultProvider, "p2"}
ModelNames == {DefaultModel, "m2"}

\* models[provider]?.[0] || '': the backend lists models for the default
\* provider only
FirstModel(provider) == IF provider = DefaultProvider THEN DefaultModel ELSE NoName

\* currentChat && currentChat.messages.length > 0
HasActiveChat ==
  /\ currentChatId # NoChat
  /\ HasChat(chats, currentChatId)
  /\ Len(FindChat(chats, currentChatId).messages) > 0

SetterInit ==
  /\ chats \in RestoredChats
  /\ currentChatId \in IF chats = <<>> THEN {NoChat}
                       ELSE { chats[i].id : i \in DOMAIN chats }
  /\ InitConfig
  /\ InitInput
  /\ artifact = NoArtifact
  /\ InitDelivery

SetterUnchanged ==
  UNCHANGED << chats, input, artifact, storeFlags, nextChatId, sends, subs, loops, timers,
               nDeletes, history >>

setSelectedProvider(provider) ==
  LET defaultModel == FirstModel(provider)
  IN  /\ IF provider # selectedProvider
         THEN /\ selectedProvider' = provider
              /\ selectedModel' = defaultModel
              /\ currentChatId' = IF HasActiveChat THEN NoChat ELSE currentChatId
         ELSE UNCHANGED << selectedProvider, selectedModel, currentChatId >>
      /\ UNCHANGED << selectedAgentId, chatMode >>
      /\ SetterUnchanged

setSelectedModel(model) ==
  /\ IF model # selectedModel
     THEN /\ selectedModel' = model
          /\ currentChatId' = IF HasActiveChat THEN NoChat ELSE currentChatId
     ELSE UNCHANGED << selectedModel, currentChatId >>
  /\ UNCHANGED << selectedProvider, selectedAgentId, chatMode >>
  /\ SetterUnchanged

setSelectedAgentId(agentId) ==
  /\ IF agentId # selectedAgentId
     THEN /\ selectedAgentId' = agentId
          /\ currentChatId' = IF HasActiveChat THEN NoChat ELSE currentChatId
     ELSE UNCHANGED << selectedAgentId, currentChatId >>
  /\ UNCHANGED << selectedProvider, selectedModel, chatMode >>
  /\ SetterUnchanged

\* setChatMode that starts a new session on every switch of the mode
setChatModeAlwaysClears(mode) ==
  /\ chatMode' = mode
  /\ currentChatId' = IF mode # chatMode THEN NoChat ELSE currentChatId
  /\ UNCHANGED << selectedProvider, selectedModel, selectedAgentId >>
  /\ SetterUnchanged

setChatMode(mode) ==
  LET isSwitchingModes == mode # chatMode
      hasActiveChat    == HasActiveChat
  IN  /\ chatMode' = mode
      /\ currentChatId' = IF isSwitchingModes /\ hasActiveChat THEN NoChat ELSE currentChatId
      /\ UNCHANGED << selectedProvider, selectedModel, selectedAgentId >>
      /\ SetterUnchanged

SetterNext ==
  \/ \E p \in Providers : setSelectedProvider(p)
  \/ \E m \in ModelNames : setSelectedModel(m)
  \/ \E a \in AgentIds \cup {NoAgent} : setSelectedAgentId(a)
  \/ \E mode \in ChatModes : setChatMode(mode)

SetterSpec == SetterInit /\ [][SetterNext]_vars

\* ---------------------------------------------------------------- C29
\* currentChatId becomes null exactly when the value changes and the
\* current conversation has a message, and is unchanged otherwise; the
\* conversation list is untouched.
SetterEffect(changes) ==
  /\ currentChatId' = IF changes /\ HasActiveChat THEN NoChat ELSE currentChatId
  /\ chats' = chats

\* C29: each of the four setters clears currentChatId exactly when its value
\* actually changes and the current conversation has at least one message,
\* leaves currentChatId alone otherwise, and never modifies the
\* conversation list or a message.
C29_SettersClearCurrentChat ==
  /\ [][\A p \in Providers : setSelectedProvider(p) => SetterEffect(p # selectedProvider)]_vars
  /\ [][\A m \in ModelNames : setSelectedModel(m) => SetterEffect(m # selectedModel)]_vars
  /\ [][\A a \in AgentIds \cup {NoAgent} :
          setSelectedAgentId(a) => SetterEffect(a # selectedAgentId)]_vars
  /\ [][\A mode \in ChatModes : setChatMode(mode) => SetterEffect(mode # chatMode)]_vars

\* a setter has started a new session: no conversation is current although
\* two conversations with messages are in the list
C29_Witness ==
  /\ currentChatId = NoChat
  /\ Len(chats) = 2
  /\ \A i \in DOMAIN chats : Len(chats[i].messages) > 0

\* ================================================================ deleteChat
\* deleteChat on its own, over every list of up to three restored
\* conversations with distinct ids, any of them (or none) being current.
ListIds == {1, 2, 3}

\* the lists of conversations with distinct ids drawn from ListIds
RestoredLists ==
  { cs \in UNION { [1..n -> { RestoredChat(a, <<>>) : a \in ListIds }] : n \in 0..Cardinality(ListIds) } :
      \A i, j \in DOMAIN cs : i # j => cs[i].id # cs[j].id }

ListInit ==
  /\ chats \in RestoredLists
  /\ currentChatId \in {NoChat} \cup { chats[i].id : i \in DOMAIN chats }
  /\ InitConfig
  /\ InitInput
  /\ artifact = NoArtifact
  /\ InitDelivery

ListNext == \E c \in ListIds : DeleteChat(c)

ListSpec == ListInit /\ [][ListNext]_vars

\* ---------------------------------------------------------------- C30
\* `after` is `before` without the conversations with id chatId, the others
\* in their original order
RemovedInOrder(before, after, chatId) ==
  /\ \A i \in DOMAIN after : after[i].id # chatId
  /\ Len(after) = Cardinality({ i \in DOMAIN before : before[i].id # chatId })
  /\ \A i \in DOMAIN after : \E k \in DOMAIN before : before[k] = after[i]
  /\ \A i, j \in DOMAIN before :
       (i < j /\ before[i].id # chatId /\ before[j].id # chatId) =>
         \E a, b \in DOMAIN after : a < b /\ after[a] = before[i] /\ after[b] = before[j]

\* C30: after deleteChat(id) the list holds no conversation with that id
\* and all others in their original order; currentChatId becomes the first
\* remaining conversation's id (null when none remains) if the deleted one
\* was current and is unchanged otherwise, so it never points at the
\* deleted conversation.
C30_DeleteChat ==
  [][\A c \in ListIds :
       DeleteChat(c) =>
         /\ RemovedInOrder(chats, chats', c)
         /\ currentChatId' = IF currentChatId # c THEN currentChatId
                             ELSE IF chats' = <<>> THEN NoChat ELSE chats'[1].id
         /\ currentChatId' # c]_vars

\* one of three conversations was deleted and the first of the two that
\* remain is the current one
C30_Witness ==
  /\ nDeletes = 1
  /\ Len(chats) = 2
  /\ currentChatId = chats[1].id

====
